---- MODULE Spec2Model ----
(***************************************************************************)
(* blogicum/blog: the view layer of the blog (views.py), its forms         *)
(* (form.py) and the list-editable fields of its admin site (admin.py),    *)
(* as a state machine over the database rows the views read and write.     *)
(*                                                                         *)
(* One request is served at a time: an action takes the machine from idle  *)
(* to the response of one request (req), Deliver hands the response out.   *)
(* The mutating views are modelled on their POST submission with a form    *)
(* that validates.                                                         *)
(***************************************************************************)
EXTENDS Integers, Sequences, FiniteSets, TLC

\* ------------------------------------------------------------------ bounds
MaxPosts == 2
MaxComments == 1
MaxTime == 1

\* paginate_by of the three listing views
PaginateBy == 10

\* ------------------------------------------------------------ value sets
Users == {"alice", "bob"}
Anonymous == "anonymous"
Viewers == Users \cup {Anonymous}
Categories == {"travel", "news"}
Slugs == Categories \cup {"nosuch"}
Usernames == Users \cup {"nobody"}
Texts == {"a", "b"}
PostIds == 1..MaxPosts
CommentIds == 1..MaxComments
Times == 0..MaxTime
\* the values a mutating form submits for pub_date: not in the future, and
\* the latest future date
FormDates == {0, MaxTime}
\* a null foreign key, and Python's None
NoCategory == "NoCategory"
None == "None"

VARIABLES
    now,              \* timezone.now()
    index_now,        \* the timezone.now() bound into IndexListView.queryset
    categories,       \* Category rows: slug -> is_published
    posts,            \* Post rows: id -> [author, pub_date, is_published, category]
    comments,         \* Comment rows: id -> [author, post, text, submitter, target]
    next_post_id,     \* the next Post primary key
    next_comment_id,  \* the next Comment primary key
    req               \* the request being answered, with its response

vars == <<now, index_now, categories, posts, comments, next_post_id,
          next_comment_id, req>>
store == <<categories, posts, comments, next_post_id, next_comment_id>>
clock == <<now, index_now>>

Idle == [op |-> "idle"]

Min(a, b) == IF a <= b THEN a ELSE b

\* ------------------------------------------------------------- identity
\* request.user.id: None for AnonymousUser
UserId(v) == IF v = Anonymous THEN None ELSE v

\* request.user.username: '' for AnonymousUser
Username(v) == IF v = Anonymous THEN "" ELSE v

IsAuthenticatedAlways(v) == TRUE

\* LoginRequiredMixin.dispatch: request.user.is_authenticated
IsAuthenticated(v) == v # Anonymous

IsOwnerAlways(v, author_id) == TRUE

\* self.request.user.id != current['author_id'] is False
IsOwner(v, author_id) == UserId(v) = author_id

\* ------------------------------------------------------------ locations
LoginUrl == [page |-> "login"]
ProfileUrl(username) == [page |-> "profile", username |-> username]

PostDetailUrlIndex(post_id) == [page |-> "index"]

\* reverse('blog:post_detail', post_id)
PostDetailUrl(post_id) == [page |-> "post_detail", post_id |-> post_id]

\* ------------------------------------------------------------- queries
\* category__is_published as a truth value: None (no category) is falsy
CategoryIsPublished(c) == IF c = NoCategory THEN FALSE ELSE categories[c]

\* get_filtered_posts, on the post ids S, with timezone.now() = t. The
\* category__is_published lookup joins the category: a post without a
\* category has no joined row and fails it.
GetFilteredPosts(S, t) ==
    {p \in S : /\ posts[p].pub_date <= t
               /\ posts[p].is_published
               /\ posts[p].category # NoCategory
               /\ categories[posts[p].category]}

\* .order_by('-pub_date'): every arrangement of S by pub_date descending.
\* The query names no second key, so the database returns posts of equal
\* pub_date in an order of its own choosing.
OrderBy(S) ==
    {s \in [1..Cardinality(S) -> S] :
        \A i, j \in 1..Cardinality(S) :
            i < j => /\ s[i] # s[j]
                     /\ posts[s[i]].pub_date >= posts[s[j]].pub_date}

\* .annotate(comment_count=Count('comment__id'))
Annotate(s) ==
    [i \in DOMAIN s |->
        [id |-> s[i],
         comment_count |-> Cardinality({c \in DOMAIN comments :
                                           comments[c].post = s[i]})]]

\* the first page of paginate_by = 10
Paginate(s) == SubSeq(s, 1, Min(PaginateBy, Len(s)))

\* the rows of a page, and the ids listed on it
PageOf(s) == Paginate(Annotate(s))
Listed(r) == {r.object_list[i].id : i \in DOMAIN r.object_list}

\* ---------------------------------------------------------------- Init
Init ==
    /\ now = 0
    /\ index_now = 0
    /\ categories = [c \in Categories |-> TRUE]
    /\ posts = <<>>
    /\ comments = <<>>
    /\ next_post_id = 1
    /\ next_comment_id = 1
    /\ req = Idle

\* ------------------------------------------------------- clock and admin
Tick ==
    /\ req.op = "idle"
    /\ now < MaxTime
    /\ now' = now + 1
    /\ UNCHANGED <<index_now, store, req>>

\* PostAdmin.list_editable: is_published
AdminSetPostPublished(p, b) ==
    /\ req.op = "idle"
    /\ p \in DOMAIN posts
    /\ posts[p].is_published # b
    /\ posts' = [posts EXCEPT ![p].is_published = b]
    /\ UNCHANGED <<clock, categories, comments, next_post_id,
                   next_comment_id, req>>

\* PostAdmin.list_editable: category (empty_value_display: it may be unset)
AdminSetPostCategory(p, c) ==
    /\ req.op = "idle"
    /\ p \in DOMAIN posts
    /\ posts[p].category # c
    /\ posts' = [posts EXCEPT ![p].category = c]
    /\ UNCHANGED <<clock, categories, comments, next_post_id,
                   next_comment_id, req>>

\* CategoryAdmin.list_editable: is_published
AdminSetCategoryPublished(c, b) ==
    /\ req.op = "idle"
    /\ categories[c] # b
    /\ categories' = [categories EXCEPT ![c] = b]
    /\ UNCHANGED <<clock, posts, comments, next_post_id, next_comment_id,
                   req>>

\* ------------------------------------------------------------ read views
\* IndexListView: the class-level queryset was filtered when the module was
\* loaded; each request runs that same query again.
IndexListView(v) ==
    /\ req.op = "idle"
    /\ \E s \in OrderBy(GetFilteredPosts(DOMAIN posts, index_now)) :
          req' = [op |-> "index", viewer |-> v, outcome |-> "ok",
                  object_list |-> PageOf(s)]
    /\ UNCHANGED <<clock, store>>

\* PostDetailView.get_context_data
PostDetailView(v, post_id) ==
    /\ req.op = "idle"
    /\ LET r == [op |-> "post_detail", viewer |-> v, post_id |-> post_id]
           hidden == \/ ~posts[post_id].is_published
                     \/ posts[post_id].pub_date >= now
                     \/ ~CategoryIsPublished(posts[post_id].category)
       IN  req' =
             IF post_id \notin DOMAIN posts
             THEN r @@ [outcome |-> "not_found"]
             ELSE IF hidden /\ posts[post_id].author # UserId(v)
             THEN r @@ [outcome |-> "not_found"]
             ELSE r @@ [outcome |-> "ok",
                        comments |-> {c \in DOMAIN comments :
                                         comments[c].post = post_id}]
    /\ UNCHANGED <<clock, store>>

\* CategoryDetailView.get_context_data
CategoryDetailView(v, slug) ==
    /\ req.op = "idle"
    /\ LET r == [op |-> "category", viewer |-> v, slug |-> slug]
       IN  IF slug \notin Categories
           THEN req' = r @@ [outcome |-> "not_found"]
           ELSE IF ~categories[slug]
           THEN req' = r @@ [outcome |-> "not_found"]
           ELSE \E s \in OrderBy({p \in GetFilteredPosts(DOMAIN posts, now) :
                                     posts[p].category = slug}) :
                   req' = r @@ [outcome |-> "ok", object_list |-> PageOf(s)]
    /\ UNCHANGED <<clock, store>>

\* ProfileDetailView.get_context_data
ProfileDetailView(v, username) ==
    /\ req.op = "idle"
    /\ LET r == [op |-> "profile", viewer |-> v, username |-> username]
           own == {p \in DOMAIN posts : posts[p].author = username}
           object_list == IF Username(v) # username
                          THEN GetFilteredPosts(own, now)
                          ELSE own
       IN  IF username \notin Users
           THEN req' = r @@ [outcome |-> "not_found"]
           ELSE \E s \in OrderBy(object_list) :
                   req' = r @@ [outcome |-> "ok", object_list |-> PageOf(s)]
    /\ UNCHANGED <<clock, store>>

\* the response leaves; the next request may come
Deliver ==
    /\ req.op # "idle"
    /\ req' = Idle
    /\ UNCHANGED <<clock, store>>

\* ------------------------------------------------------- mutating views
\* Post.delete() takes the post's comments with it
CascadeComments(post_id) ==
    [c \in {d \in DOMAIN comments : comments[d].post # post_id} |->
        comments[c]]

\* PostCreateView.form_valid: the fields of PostMixin, the author from the
\* request; is_published is no field of the form and keeps its default
PostInstance(v, form) ==
    [author |-> v, pub_date |-> form.pub_date, is_published |-> TRUE,
     category |-> form.category]

CommentInstanceFromForm(v, post_id, form) ==
    [author |-> form.author, post |-> form.post, text |-> form.text,
     submitter |-> v, target |-> post_id]

\* CommentCreateView.form_valid: CommentForm excludes author and post, the
\* view sets them; submitter and target record the request that made the row
CommentInstance(v, post_id, form) ==
    [author |-> v, post |-> post_id, text |-> form.text,
     submitter |-> v, target |-> post_id]

\* PostCreateView
PostCreateView(v, form) ==
    /\ req.op = "idle"
    /\ LET r == [op |-> "post_create", viewer |-> v]
       IN  IF ~IsAuthenticated(v)
           THEN /\ req' = r @@ [outcome |-> "login", location |-> LoginUrl]
                /\ UNCHANGED <<posts, next_post_id>>
           ELSE /\ next_post_id <= MaxPosts
                /\ posts' = posts @@ (next_post_id :> PostInstance(v, form))
                /\ next_post_id' = next_post_id + 1
                /\ req' = r @@ [outcome |-> "done", post_id |-> next_post_id,
                                location |-> ProfileUrl(Username(v))]
    /\ UNCHANGED <<clock, categories, comments, next_comment_id>>

\* PostUpdateView: LoginRequiredMixin, DispathPostMixin.dispatch, UpdateView
PostUpdateView(v, post_id, form) ==
    /\ req.op = "idle"
    /\ LET r == [op |-> "post_edit", viewer |-> v, post_id |-> post_id]
       IN  IF ~IsAuthenticated(v)
           THEN /\ req' = r @@ [outcome |-> "login", location |-> LoginUrl]
                /\ UNCHANGED posts
           ELSE IF post_id \notin DOMAIN posts
           THEN /\ req' = r @@ [outcome |-> "not_found"]
                /\ UNCHANGED posts
           ELSE IF ~IsOwner(v, posts[post_id].author)
           THEN /\ req' = r @@ [outcome |-> "deny",
                                location |-> PostDetailUrl(post_id)]
                /\ UNCHANGED posts
           ELSE /\ posts' = [posts EXCEPT
                                ![post_id].pub_date = form.pub_date,
                                ![post_id].category = form.category]
                /\ req' = r @@ [outcome |-> "done",
                                location |-> PostDetailUrl(post_id)]
    /\ UNCHANGED <<clock, categories, comments, next_post_id,
                   next_comment_id>>

\* PostDeleteView: LoginRequiredMixin, DispathPostMixin.dispatch, DeleteView
PostDeleteView(v, post_id) ==
    /\ req.op = "idle"
    /\ LET r == [op |-> "post_delete", viewer |-> v, post_id |-> post_id]
       IN  IF ~IsAuthenticated(v)
           THEN /\ req' = r @@ [outcome |-> "login", location |-> LoginUrl]
                /\ UNCHANGED <<posts, comments>>
           ELSE IF post_id \notin DOMAIN posts
           THEN /\ req' = r @@ [outcome |-> "not_found"]
                /\ UNCHANGED <<posts, comments>>
           ELSE IF ~IsOwner(v, posts[post_id].author)
           THEN /\ req' = r @@ [outcome |-> "deny",
                                location |-> PostDetailUrl(post_id)]
                /\ UNCHANGED <<posts, comments>>
           ELSE /\ posts' = [p \in DOMAIN posts \ {post_id} |-> posts[p]]
                /\ comments' = CascadeComments(post_id)
                /\ req' = r @@ [outcome |-> "done",
                                location |-> ProfileUrl(Username(v))]
    /\ UNCHANGED <<clock, categories, next_post_id, next_comment_id>>

\* CommentCreateView: LoginRequiredMixin, form_valid
CommentCreateView(v, post_id, form) ==
    /\ req.op = "idle"
    /\ LET r == [op |-> "comment_create", viewer |-> v, post_id |-> post_id]
       IN  IF ~IsAuthenticated(v)
           THEN /\ req' = r @@ [outcome |-> "login", location |-> LoginUrl]
                /\ UNCHANGED <<comments, next_comment_id>>
           ELSE IF post_id \notin DOMAIN posts
           THEN /\ req' = r @@ [outcome |-> "not_found"]
                /\ UNCHANGED <<comments, next_comment_id>>
           ELSE /\ next_comment_id <= MaxComments
                /\ comments' = comments @@
                      (next_comment_id :> CommentInstance(v, post_id, form))
                /\ next_comment_id' = next_comment_id + 1
                /\ req' = r @@ [outcome |-> "done",
                                comment_id |-> next_comment_id,
                                posted |-> form,
                                location |-> PostDetailUrl(post_id)]
    /\ UNCHANGED <<clock, categories, posts, next_post_id>>

\* CommentUpdateView: LoginRequiredMixin, CommentChangeMixin.dispatch,
\* UpdateView on the comment of pk_url_kwarg comment_id
CommentUpdateView(v, post_id, comment_id, form) ==
    /\ req.op = "idle"
    /\ LET r == [op |-> "comment_edit", viewer |-> v, post_id |-> post_id,
                 comment_id |-> comment_id]
       IN  IF ~IsAuthenticated(v)
           THEN /\ req' = r @@ [outcome |-> "login", location |-> LoginUrl]
                /\ UNCHANGED comments
           ELSE IF comment_id \notin DOMAIN comments
           THEN /\ req' = r @@ [outcome |-> "not_found"]
                /\ UNCHANGED comments
           ELSE IF ~IsOwner(v, comments[comment_id].author)
           THEN /\ req' = r @@ [outcome |-> "deny",
                                location |-> PostDetailUrl(post_id)]
                /\ UNCHANGED comments
           ELSE /\ comments' = [comments EXCEPT
                                   ![comment_id].text = form.text]
                /\ req' = r @@ [outcome |-> "done",
                                location |-> PostDetailUrl(post_id)]
    /\ UNCHANGED <<clock, categories, posts, next_post_id, next_comment_id>>

\* CommentDeleteView: LoginRequiredMixin, CommentChangeMixin.dispatch,
\* DeleteView on the comment of pk_url_kwarg comment_id
CommentDeleteView(v, post_id, comment_id) ==
    /\ req.op = "idle"
    /\ LET r == [op |-> "comment_delete", viewer |-> v, post_id |-> post_id,
                 comment_id |-> comment_id]
       IN  IF ~IsAuthenticated(v)
           THEN /\ req' = r @@ [outcome |-> "login", location |-> LoginUrl]
                /\ UNCHANGED comments
           ELSE IF comment_id \notin DOMAIN comments
           THEN /\ req' = r @@ [outcome |-> "not_found"]
                /\ UNCHANGED comments
           ELSE IF ~IsOwner(v, comments[comment_id].author)
           THEN /\ req' = r @@ [outcome |-> "deny",
                                location |-> PostDetailUrl(post_id)]
                /\ UNCHANGED comments
           ELSE /\ comments' = [c \in DOMAIN comments \ {comment_id} |->
                                   comments[c]]
                /\ req' = r @@ [outcome |-> "done",
                                location |-> PostDetailUrl(post_id)]
    /\ UNCHANGED <<clock, categories, posts, next_post_id, next_comment_id>>

\* ------------------------------------------------------- specifications
\* what a post form submits, and what a comment form submits: the text, and
\* the author and post a client may add to the POST data
PostForms == [pub_date : Times, category : Categories]
MutationPostForms == [pub_date : FormDates, category : {"travel"}]
CommentForms == [text : Texts, author : Users, post : {1}]

\* the site as its readers see it: posts are written and moderated, time
\* passes, pages are read
NextView ==
    \/ Tick
    \/ \E p \in PostIds, b \in BOOLEAN : AdminSetPostPublished(p, b)
    \/ \E p \in PostIds, c \in Categories \cup {NoCategory} :
          AdminSetPostCategory(p, c)
    \/ \E c \in Categories, b \in BOOLEAN : AdminSetCategoryPublished(c, b)
    \/ \E v \in Users, form \in PostForms : PostCreateView(v, form)
    \/ \E v \in Viewers : IndexListView(v)
    \/ \E v \in Viewers, p \in PostIds : PostDetailView(v, p)
    \/ \E v \in Viewers, slug \in Slugs : CategoryDetailView(v, slug)
    \/ \E v \in Viewers, u \in Usernames : ProfileDetailView(v, u)
    \/ Deliver

SpecView == Init /\ [][NextView]_vars

\* the site as its writers use it: posts and comments are created, edited
\* and deleted
NextMutation ==
    \/ \E v \in Viewers, form \in MutationPostForms : PostCreateView(v, form)
    \/ \E v \in Viewers, p \in PostIds, form \in MutationPostForms :
          PostUpdateView(v, p, form)
    \/ \E v \in Viewers, p \in PostIds : PostDeleteView(v, p)
    \/ \E v \in Viewers, p \in PostIds, form \in CommentForms :
          CommentCreateView(v, p, form)
    \/ \E v \in Viewers, p \in PostIds, c \in CommentIds, form \in CommentForms :
          CommentUpdateView(v, p, c, form)
    \/ \E v \in Viewers, p \in PostIds, c \in CommentIds :
          CommentDeleteView(v, p, c)
    \/ Deliver

SpecMutation == Init /\ [][NextMutation]_vars

\* --------------------------------------------------------------- claims
\* the public visibility predicate as the specification words it
PubliclyVisible(p) ==
    /\ posts[p].is_published
    /\ posts[p].pub_date <= now
    /\ (posts[p].category = NoCategory \/ categories[posts[p].category])

ListingOps == {"index", "category", "profile"}
ChangeOps == {"post_edit", "post_delete", "comment_edit", "comment_delete"}
MutationOps == ChangeOps \cup {"post_create", "comment_create"}
Served(op) == req.op = op /\ req.outcome = "ok"

\* C1: for a viewer who is not on their own profile (index page, category
\* page, another author's profile) a post is listed if and only if it is
\* published, its pub_date is not after now, and it has no category or a
\* published one.
C1_ListedIffPubliclyVisible ==
    /\ Served("index") =>
          Listed(req) = {p \in DOMAIN posts : PubliclyVisible(p)}
    /\ Served("category") =>
          Listed(req) = {p \in DOMAIN posts :
                            posts[p].category = req.slug /\ PubliclyVisible(p)}
    /\ (Served("profile") /\ req.viewer # req.username) =>
          Listed(req) = {p \in DOMAIN posts :
                            posts[p].author = req.username /\ PubliclyVisible(p)}

\* C2: a published post of a published category whose pub_date was in the
\* future when the application started is on the index page of every request
\* made at or after its pub_date, and on none made before.
C2_IndexFollowsTheClock ==
    Served("index") =>
        \A p \in DOMAIN posts :
            (/\ posts[p].is_published
             /\ posts[p].category # NoCategory
             /\ categories[posts[p].category]
             /\ posts[p].pub_date > index_now)
            => (p \in Listed(req) <=> now >= posts[p].pub_date)

\* C3: the detail page returns the post if and only if the post exists and
\* is publicly visible (pub_date <= now inclusive, no category or a published
\* one) or the viewer is its authenticated author; otherwise it is NotFound.
C3_DetailIffVisibleOrOwner ==
    req.op = "post_detail" =>
        (req.outcome = "ok" <=>
            /\ req.post_id \in DOMAIN posts
            /\ \/ PubliclyVisible(req.post_id)
               \/ /\ req.viewer # Anonymous
                  /\ req.viewer = posts[req.post_id].author)

\* the request answered by this step was made by the author of the post or
\* comment it names (as the rows stood before the step)
ByTargetAuthor ==
    IF req'.op \in {"post_edit", "post_delete"}
    THEN /\ req'.post_id \in DOMAIN posts
         /\ req'.viewer = posts[req'.post_id].author
    ELSE /\ req'.comment_id \in DOMAIN comments
         /\ req'.viewer = comments[req'.comment_id].author

\* C4: a post-edit, post-delete, comment-edit or comment-delete request whose
\* viewer is not the author of its target leaves every post and comment as
\* it was.
C4_OnlyTheAuthorChanges ==
    [][(req'.op \in ChangeOps /\ ~ByTargetAuthor)
          => UNCHANGED <<posts, comments>>]_vars

C4_Witness ==
    /\ req.op = "comment_edit"
    /\ req.outcome = "deny"
    /\ req.comment_id \in DOMAIN comments
    /\ req.viewer \in Users
    /\ req.viewer # comments[req.comment_id].author

\* C5 as stated: post edit and post delete on an existing post are allowed
\* if and only if the viewer is the author, and every other viewer, the
\* anonymous one included, is redirected to that post's detail page.
C5_Original ==
    [][(req'.op \in {"post_edit", "post_delete"} /\ req'.post_id \in DOMAIN posts)
          => IF req'.viewer = posts[req'.post_id].author
             THEN req'.outcome = "done"
             ELSE /\ req'.outcome = "deny"
                  /\ req'.location = [page |-> "post_detail", post_id |-> req'.post_id]]_vars

\* C5 amended: post edit and post delete on an existing post are allowed if
\* and only if the viewer is the author; every other authenticated viewer is
\* redirected to that post's detail page; the anonymous viewer is redirected
\* to the login page.
C5_Amended ==
    [][(req'.op \in {"post_edit", "post_delete"} /\ req'.post_id \in DOMAIN posts)
          => IF req'.viewer = posts[req'.post_id].author
             THEN req'.outcome = "done"
             ELSE IF req'.viewer = Anonymous
             THEN /\ req'.outcome = "login"
                  /\ req'.location = [page |-> "login"]
             ELSE /\ req'.outcome = "deny"
                  /\ req'.location = [page |-> "post_detail", post_id |-> req'.post_id]]_vars

C5_Witness ==
    /\ req.op = "post_delete"
    /\ req.outcome = "deny"
    /\ req.post_id \in DOMAIN posts
    /\ req.viewer \in Users
    /\ req.viewer # posts[req.post_id].author

\* C6: every mutation attempt of the anonymous viewer (post create, edit,
\* delete, comment create, edit, delete) is redirected to the login page,
\* whether or not its target exists, and writes nothing.
C6_AnonymousGoesToLogin ==
    [][(req'.op \in MutationOps /\ req'.viewer = Anonymous)
          => /\ req'.outcome = "login"
             /\ req'.location = [page |-> "login"]
             /\ UNCHANGED store]_vars

C6_Witness ==
    /\ req.op = "comment_delete"
    /\ req.viewer = Anonymous
    /\ req.comment_id \notin DOMAIN comments
    /\ req.post_id \notin DOMAIN posts
    /\ req.outcome = "login"

\* C7: a viewer denied a comment edit or comment delete is redirected to the
\* detail page of the post the comment belongs to, whatever post_id the
\* request carried.
C7_DenyGoesToTheCommentsPost ==
    (req.op \in {"comment_edit", "comment_delete"} /\ req.outcome = "deny")
        => req.location = [page |-> "post_detail",
                         post_id |-> comments[req.comment_id].post]

\* C8: the profile page of author A lists, for A, every post of A and no
\* other; for anyone else, exactly the posts of A that are publicly visible.
C8_ProfileListing ==
    Served("profile") =>
        Listed(req) =
            IF req.viewer = req.username
            THEN {p \in DOMAIN posts : posts[p].author = req.username}
            ELSE {p \in DOMAIN posts :
                     posts[p].author = req.username /\ PubliclyVisible(p)}

\* every stored comment is by the viewer who submitted it, on the post the
\* submitting request named
Provenance ==
    \A c \in DOMAIN comments :
        /\ comments[c].author = comments[c].submitter
        /\ comments[c].post = comments[c].target

\* C9: create_comment by an authenticated viewer adds, when the post exists,
\* exactly one comment, by that viewer on that post, whatever author and post
\* the client submitted; when the post does not exist it is NotFound and
\* adds none. Every stored comment is by its submitter, on the post its
\* request named.
C9_CommentIsServerAssigned ==
    [][/\ (req'.op = "comment_create" /\ req'.viewer # Anonymous)
            => IF req'.post_id \in DOMAIN posts
               THEN \E c \in DOMAIN comments' \ DOMAIN comments :
                       /\ DOMAIN comments' = DOMAIN comments \cup {c}
                       /\ comments'[c].author = req'.viewer
                       /\ comments'[c].post = req'.post_id
                       /\ \A d \in DOMAIN comments : comments'[d] = comments[d]
               ELSE /\ req'.outcome = "not_found"
                    /\ comments' = comments
       /\ Provenance']_vars

C9_Witness ==
    /\ req.op = "comment_create"
    /\ req.outcome = "done"
    /\ req.posted.author # req.viewer
    /\ req.posted.post # req.post_id
    /\ posts[req.post_id].pub_date > now
    /\ posts[req.post_id].author # req.viewer
    /\ comments[req.comment_id].author = req.viewer
    /\ comments[req.comment_id].post = req.post_id

\* C10: every listing is sorted by pub_date descending, posts of equal
\* pub_date in id order.
C10_SortedWithIdTieBreak ==
    (req.op \in ListingOps /\ req.outcome = "ok") =>
        \A i, j \in DOMAIN req.object_list :
            i < j =>
                LET a == req.object_list[i].id
                    b == req.object_list[j].id
                IN  \/ posts[a].pub_date > posts[b].pub_date
                    \/ posts[a].pub_date = posts[b].pub_date /\ a < b

====
